---- MODULE Spec2Model ----
(***************************************************************************)
(* Load driver (dicom_sender.py) and metrics collector                     *)
(* (compass_perf/metrics.py) of the DICOM C-STORE load harness.            *)
(*                                                                         *)
(* Spec        : DicomSender.load_test_for_duration with its worker pool,  *)
(*               every worker running DicomSender._send_single_dataset.    *)
(* FairSpec    : the same run from the while loop on, every thread being   *)
(*               scheduled and time passing.                               *)
(* SpecPaced   : the same run when time passes in the pacing sleeps alone. *)
(* SpecMetrics : threads calling PerfMetrics.record and the read           *)
(*               properties / snapshot() concurrently.                     *)
(* SpecStats   : one caller reading the statistics of collectors of many   *)
(*               shapes.                                                   *)
(* SpecSequential : one caller that keeps the last dict of snapshot().     *)
(* SpecConfig  : config.py, from_env under any environment.                *)
(* SpecPing    : DicomSender.ping, called up to MaxPings times.            *)
(* SpecCycle   : a paced run of one worker, long enough for the dataset    *)
(*               sequence to wrap around.                                  *)
(* SpecIndex   : dcmutl.get_image_index, one call.                         *)
(*                                                                         *)
(* Time is counted in clock ticks, TicksPerSecond ticks to the second.     *)
(* Python's None is the string "None"; a status is the string of its code. *)
(***************************************************************************)
EXTENDS Integers, Sequences, FiniteSets, Bags, TLC

\* ------------------------------------------------------------------ bounds
MaxSent == 2
MaxClock == 3
MaxDuration == 1
MaxConcurrency == 2
MaxDatasets == 1
TicksPerSecond == 2

\* ------------------------------------------------------------- environment
\* LoadProfileConfig handed to DicomSender.__init__ (config.py fields)
load_profile == [peak_images_per_second |-> 1, load_multiplier |-> 2, concurrency |-> 2]

None == "None"
\* an Optional[...] argument: <<>> is None, <<v>> is the value v
Optional(S) == {<<>>} \cup {<<v>> : v \in S}
\* the rate_limit_images_per_second values tried
Rates == {-1, 0, 1, 2}
StatusSuccess == "0x0000"
\* what assoc.send_c_store can return: a Dataset carrying a Status code, an
\* empty Dataset (peer timed out / aborted), or None (a transport stub)
StoreStatuses == {"0x0000", "0xA700", "Empty", None}

VARIABLES
  pc,              \* position of load_test_for_duration's main thread
  clock,           \* time.perf_counter(), in ticks
  stop_at,         \* local stop_at
  next_send_time,  \* local next_send_time
  period,          \* local period, in ticks
  concurrency,     \* max_workers of the ThreadPoolExecutor
  total_sent,      \* local total_sent
  datasets,        \* number of items of the dataset sequence
  ds_cycle,        \* how many items itertools.cycle has handed out
  futures,         \* the futures list: one record per submitted call
  aes,             \* every AE built so far
  samples,         \* PerfMetrics._samples
  lock,            \* PerfMetrics._lock: 0 when free, else the thread holding it
  th,              \* the threads calling into PerfMetrics, one call at a time
  hist,            \* history: the list at construction, the samples of returned record calls
  late_submits,    \* history: the submissions made at a clock value >= stop_at
  environ,         \* os.environ: the text of each variable, <<>> when it is not set
  config,          \* what DicomEndpointConfig.from_env / LoadProfileConfig.from_env gave
  ping,            \* the call of DicomSender.ping: its position, locals and result
  index_call       \* the call of get_image_index: its arguments, innermost frame, result

metrics_vars == <<lock, th, hist>>
config_vars == <<environ, config>>
vars == <<pc, clock, stop_at, next_send_time, period, concurrency, total_sent,
          datasets, ds_cycle, futures, aes, samples, lock, th, hist, late_submits,
          environ, config, ping, index_call>>

\* --------------------------------------------------------------- config.py
\* the settings read with _env_int, and their defaults
IntSettings ==
  {"COMPASS_PORT", "PEAK_IMAGES_PER_SECOND", "TEST_DURATION_SECONDS",
   "LOAD_CONCURRENCY"}
EnvNames == IntSettings \cup {"LOAD_MULTIPLIER", "LOCAL_AE_TITLE"}
IntDefault ==
  [COMPASS_PORT |-> 11112, PEAK_IMAGES_PER_SECOND |-> 50,
   TEST_DURATION_SECONDS |-> 300, LOAD_CONCURRENCY |-> 8]

\* the texts a variable is set to
NumericTexts == {"12", "-3", "2.5", "abc"}
EnvTexts(name) == IF name = "LOCAL_AE_TITLE" THEN {"", "MY_AE"} ELSE NumericTexts

\* int(text): <<n>>, or <<>> for ValueError
IntOf(text) ==
  CASE text = "12" -> <<12>>
    [] text = "-3" -> <<-3>>
    [] OTHER -> <<>>

\* float(text): the quotient <<<<num, den>>>>, or <<>> for ValueError
FloatOf(text) ==
  CASE text = "12" -> <<<<12, 1>>>>
    [] text = "-3" -> <<<<-3, 1>>>>
    [] text = "2.5" -> <<<<5, 2>>>>
    [] text = "3.0" -> <<<<3, 1>>>>
    [] OTHER -> <<>>

\* os.getenv(name, default): default is a text
Getenv(env, name, default) == IF env[name] = <<>> THEN default ELSE env[name][1]

\* _env_str(name, default)
EnvStr(env, name, default) == Getenv(env, name, default)

\* _env_int(name, default)
EnvInt(env, name, default) ==
  IF env[name] = <<>> THEN default
  ELSE IF IntOf(env[name][1]) = <<>> THEN default
  ELSE IntOf(env[name][1])[1]

NoEnviron == [name \in EnvNames |-> <<>>]
NotBuilt == [built |-> FALSE]
NoConfig == [endpoint |-> NotBuilt, load_profile |-> NotBuilt]

\* DicomEndpointConfig.from_env
EndpointFromEnv ==
  /\ ~config.endpoint.built
  /\ config' = [config EXCEPT !.endpoint =
       [built |-> TRUE, raised |-> FALSE,
        host |-> "127.0.0.1",
        port |-> EnvInt(environ, "COMPASS_PORT", IntDefault.COMPASS_PORT),
        remote_ae_title |-> "COMPASS",
        local_ae_title |->
          \* _env_str(...) or "PERF_SENDER"
          IF EnvStr(environ, "LOCAL_AE_TITLE", "PERF_SENDER") = ""
          THEN "PERF_SENDER"
          ELSE EnvStr(environ, "LOCAL_AE_TITLE", "PERF_SENDER")]]
  /\ UNCHANGED <<pc, clock, stop_at, next_send_time, period, concurrency,
                 total_sent, datasets, ds_cycle, futures, aes, samples, lock,
                 th, hist, late_submits, environ, ping,
                 index_call>>

\* LoadProfileConfig.from_env; float() is not guarded, its ValueError
\* leaves from_env
LoadProfileFromEnv ==
  /\ ~config.load_profile.built
  /\ LET multiplier == FloatOf(Getenv(environ, "LOAD_MULTIPLIER", "3.0"))
     IN config' = [config EXCEPT !.load_profile =
          IF multiplier = <<>>
          THEN [built |-> TRUE, raised |-> TRUE]
          ELSE [built |-> TRUE, raised |-> FALSE,
                peak_images_per_second |->
                  EnvInt(environ, "PEAK_IMAGES_PER_SECOND",
                         IntDefault.PEAK_IMAGES_PER_SECOND),
                load_multiplier |-> multiplier[1],
                test_duration_seconds |->
                  EnvInt(environ, "TEST_DURATION_SECONDS",
                         IntDefault.TEST_DURATION_SECONDS),
                concurrency |->
                  EnvInt(environ, "LOAD_CONCURRENCY",
                         IntDefault.LOAD_CONCURRENCY)]]
  /\ UNCHANGED <<pc, clock, stop_at, next_send_time, period, concurrency,
                 total_sent, datasets, ds_cycle, futures, aes, samples, lock,
                 th, hist, late_submits, environ, ping,
                 index_call>>

\* ----------------------------------------------------------------- metrics
\* Sample(start_time, end_time, success, status_code=None, error=None)
Sample(start_time, end_time, success, status_code, error) ==
  [start_time |-> start_time, end_time |-> end_time, success |-> success,
   status_code |-> status_code, error |-> error]

\* Python truthiness of what ends up in Sample.success
Truthy(v) == v = "True"

\* mutant: record replaces the list instead of appending to it
RecordOverwrite(list, sample) == <<sample>>

\* PerfMetrics.record: with self._lock: self._samples.append(sample)
RecordAppend(list, sample) == Append(list, sample)

\* Sample.latency_ms: (end_time - start_time) * 1000.0, times being ticks
latency_ms(s) == ((s.end_time - s.start_time) * 1000) \div TicksPerSecond

\* PerfMetrics.total / successes / failures on one copy of the list
Total(list) == Len(list)
Successes(list) == Cardinality({i \in 1..Len(list) : Truthy(list[i].success)})
Failures(list) == Cardinality({i \in 1..Len(list) : ~Truthy(list[i].success)})

\* a quotient num / den is the pair <<num, den>>
RatEq(a, b) == a[1] * b[2] = b[1] * a[2]

\* mutant: error_rate without the test for an empty list
ErrorRateUnguarded(total0, failures, total) == <<failures, total>>

\* mutant: the failures are divided by the total read at line 66
ErrorRateStaleTotal(total0, failures, total) ==
  IF total0 = 0 THEN <<0, 1>> ELSE <<failures, total0>>

\* PerfMetrics.error_rate from the total of line 66 and, when that is not 0,
\* the failures and the total of line 68
ErrorRateOf(total0, failures, total) ==
  IF total0 = 0 THEN <<0, 1>> ELSE <<failures, total>>

\* mutant: _latencies without the `if s.success` filter
LatenciesOfAll(list) == [i \in 1..Len(list) |-> latency_ms(list[i])]

\* PerfMetrics._latencies
Latencies(list) ==
  LET ok == SelectSeq(list, LAMBDA s : Truthy(s.success))
  IN [i \in 1..Len(ok) |-> latency_ms(ok[i])]

RECURSIVE SumSeq(_)
SumSeq(q) == IF q = <<>> THEN 0 ELSE Head(q) + SumSeq(Tail(q))

\* mutant: the first latency of the list instead of the smallest
MinLatencyFirst(list) ==
  LET lat == Latencies(list)
  IN IF lat = <<>> THEN <<>> ELSE <<lat[1]>>

\* PerfMetrics.min_latency_ms: None is <<>>
MinLatency(list) ==
  LET lat == Latencies(list)
  IN IF lat = <<>> THEN <<>>
     ELSE <<CHOOSE m \in {lat[i] : i \in 1..Len(lat)} :
              \A i \in 1..Len(lat) : m <= lat[i]>>

\* PerfMetrics.avg_latency_ms: statistics.mean(lat) as the quotient sum / n
AvgLatency(list) ==
  LET lat == Latencies(list)
  IN IF lat = <<>> THEN <<>> ELSE <<SumSeq(lat), Len(lat)>>

\* mutant: k = int(len(lat) * 0.95), the rank without the - 1
P95IndexNoMinusOne(n) ==
  LET k == (n * 95) \div 100
      lo == IF k < n - 1 THEN k ELSE n - 1
  IN IF lo > 0 THEN lo ELSE 0

\* mutant: k = int(len(lat) * 0.90) - 1
P95IndexNinety(n) ==
  LET k == (n * 90) \div 100 - 1
      lo == IF k < n - 1 THEN k ELSE n - 1
  IN IF lo > 0 THEN lo ELSE 0

\* k = int(len(lat) * 0.95) - 1; k = max(0, min(k, len(lat) - 1))
P95Index(n) ==
  LET k == (n * 95) \div 100 - 1
      lo == IF k < n - 1 THEN k ELSE n - 1
  IN IF lo > 0 THEN lo ELSE 0

\* PerfMetrics.p95_latency_ms
P95Latency(list) ==
  LET lat == SortSeq(Latencies(list), LAMBDA a, b : a < b)
  IN IF lat = <<>> THEN <<>> ELSE <<lat[P95Index(Len(lat)) + 1]>>

\* 1 / 1e-9 seconds, in ticks
EpsilonInverse == 1000000000 \div TicksPerSecond

\* mutant: every sample is counted, whatever the window
ThroughputCountsAll(list, window) ==
  IF list = <<>> THEN <<0, 1>>
  ELSE LET idx == 1..Len(list)
           end_time == CHOOSE e \in {list[i].end_time : i \in idx} :
                         \A i \in idx : list[i].end_time <= e
           start_time ==
             IF window = <<>>
             THEN CHOOSE b \in {list[i].start_time : i \in idx} :
                    \A i \in idx : b <= list[i].start_time
             ELSE end_time - window[1]
       IN IF end_time - start_time >= 1
          THEN <<Len(list), end_time - start_time>>
          ELSE <<Len(list) * EpsilonInverse, 1>>

\* PerfMetrics.throughput_per_second(window_seconds): samples per tick, as a
\* quotient; window is <<>> for None, else <<ticks>>
Throughput(list, window) ==
  IF list = <<>> THEN <<0, 1>>
  ELSE LET idx == 1..Len(list)
           end_time == CHOOSE e \in {list[i].end_time : i \in idx} :
                         \A i \in idx : list[i].end_time <= e
           start_time ==
             IF window = <<>>
             THEN CHOOSE b \in {list[i].start_time : i \in idx} :
                    \A i \in idx : b <= list[i].start_time
             ELSE end_time - window[1]
           count == Cardinality({i \in idx : list[i].start_time >= start_time})
       IN \* duration = max(end_time - start_time, 1e-9)
          IF end_time - start_time >= 1
          THEN <<count, end_time - start_time>>
          ELSE <<count * EpsilonInverse, 1>>

\* ------------------------------------------------- _send_single_dataset
\* mutant: any status that is not None or empty counts as a success
StoreSuccessAnyStatus(status) ==
  IF status = None THEN None
  ELSE IF status = "Empty" THEN "Empty"
  ELSE "True"

\* success = status and status.Status in (0x0000,)
StoreSuccess(status) ==
  IF status = None THEN None
  ELSE IF status = "Empty" THEN "Empty"
  ELSE IF status = StatusSuccess THEN "True" ELSE "False"

\* getattr(status, "Status", None)
StatusCode(status) == IF status \in {None, "Empty"} THEN None ELSE status

\* the error of a Sample: <<>> for None, else the message and its argument
NoError == <<>>

\* None if success else f"Non-success status: {status!r}"
StoreError(status) ==
  IF Truthy(StoreSuccess(status)) THEN NoError
  ELSE <<"Non-success status", status>>

\* a submitted call of _send_single_dataset: its future, its locals, and
\* the calls it has made so far
NewCall(ds) ==
  [ds |-> ds, at |-> "queued", start |-> 0, ae |-> 0, path |-> None,
   recs |-> 0, sample |-> 0, associates |-> 0, stores |-> 0, status |-> None]

Executing(i) == futures[i].at \in {"built", "recorded"}
Finished(i) == futures[i].at \in {"done", "raised"}
NumExecuting == Cardinality({i \in 1..Len(futures) : Executing(i)})

\* mutant: a pool that starts a thread for every queued call
CanStartUnbounded(i) ==
  /\ i \in 1..Len(futures)
  /\ futures[i].at = "queued"
  /\ \A j \in 1..(i - 1) : futures[j].at # "queued"

\* the worker pool runs the queued calls first in, first out, at most
\* max_workers at a time
CanStart(i) ==
  /\ i \in 1..Len(futures)
  /\ futures[i].at = "queued"
  /\ \A j \in 1..(i - 1) : futures[j].at # "queued"
  /\ NumExecuting < concurrency

\* _build_ae: a fresh AE per call
BuildAe(i) == Append(aes, [open |-> TRUE, shutdowns |-> 0, users |-> {i}])

\* ae.shutdown()
ShutdownAe(a) ==
  [aes EXCEPT ![a].open = FALSE, ![a].shutdowns = @ + 1]

Unchanged_main ==
  UNCHANGED <<pc, stop_at, next_send_time, period, concurrency, total_sent,
              datasets, ds_cycle, lock, th, hist, late_submits, environ, config, ping, index_call>>

\* lines 60-61: start = perf_counter(); ae = self._build_ae()
SendStart(i) ==
  /\ CanStart(i)
  /\ \/ /\ aes' = BuildAe(i)
        /\ futures' = [futures EXCEPT ![i].at = "built", ![i].start = clock,
                                      ![i].ae = Len(aes) + 1]
     \/ \* _build_ae raises: line 61 is outside the try block
        /\ futures' = [futures EXCEPT ![i].at = "raised", ![i].path = "build_raised"]
        /\ UNCHANGED aes
  /\ UNCHANGED <<clock, samples>>
  /\ Unchanged_main

\* the call i after one more metrics.record(sample), on exit path `path`;
\* `sample` is where its Sample went
Recorded(i, path, associates, stores, status) ==
  [futures EXCEPT ![i].at = "recorded", ![i].recs = @ + 1, ![i].path = path,
                  ![i].sample = Len(samples) + 1,
                  ![i].associates = associates, ![i].stores = stores,
                  ![i].status = status]

\* mutant: no return after the Sample of a failed association, so the store
\* is attempted and its exception recorded as well
AssociationFailedNoReturn(i) ==
  /\ samples' = Append(Append(samples,
                  Sample(futures[i].start, clock, "False", None,
                         <<"Association failed">>)),
                  Sample(futures[i].start, clock, "False", None,
                         <<"exception", "send_c_store">>))
  /\ futures' = [futures EXCEPT ![i].at = "recorded", ![i].recs = @ + 2,
                   ![i].path = "association_failed",
                   ![i].sample = Len(samples) + 1,
                   ![i].associates = 1, ![i].stores = 1]

\* lines 68-78: the association is not established
AssociationFailed(i) ==
  /\ samples' = RecordAppend(samples,
                  Sample(futures[i].start, clock, "False", None,
                         <<"Association failed">>))
  /\ futures' = Recorded(i, "association_failed", 1, 0, None)

\* lines 80-93: send_c_store returned `status` and release returned
StoreReturned(i, status) ==
  /\ samples' = RecordAppend(samples,
                  Sample(futures[i].start, clock, StoreSuccess(status),
                         StatusCode(status), StoreError(status)))
  /\ futures' = Recorded(i, IF Truthy(StoreSuccess(status)) THEN "success"
                            ELSE "non_success", 1, 1, status)

\* the steps of the try block that can raise
RaisingSteps == {"associate", "send_c_store", "release"}

\* the exit path of a call whose `step` raised
ExceptionPath(step) ==
  CASE step = "associate" -> "exception_associate"
    [] step = "send_c_store" -> "exception_send_c_store"
    [] step = "release" -> "exception_release"
ExceptionPaths == {ExceptionPath(step) : step \in RaisingSteps}

\* mutant: the except clause logs the exception and records no Sample
ExceptionLogged(i, step, status) ==
  /\ samples' = samples
  /\ futures' = [futures EXCEPT ![i].at = "recorded",
                   ![i].path = ExceptionPath(step),
                   ![i].associates = 1,
                   ![i].stores = IF step = "associate" THEN 0 ELSE 1,
                   ![i].status = status]

\* lines 94-104: except Exception, raised by `step`; `status` is what
\* send_c_store had returned when release raised
ExceptionCaught(i, step, status) ==
  /\ samples' = RecordAppend(samples,
                  Sample(futures[i].start, clock, "False", None,
                         <<"exception", step>>))
  /\ futures' = Recorded(i, ExceptionPath(step), 1,
                         IF step = "associate" THEN 0 ELSE 1, status)

\* lines 62-104: the try block with its except clause, up to the one
\* metrics.record it ends in; end = perf_counter() is read at that point
SendTry(i) ==
  /\ i \in 1..Len(futures)
  /\ futures[i].at = "built"
  /\ \/ AssociationFailed(i)
     \/ \E status \in StoreStatuses : StoreReturned(i, status)
     \/ \E step \in RaisingSteps \ {"release"} : ExceptionCaught(i, step, None)
     \/ \E status \in StoreStatuses : ExceptionCaught(i, "release", status)
  /\ UNCHANGED <<clock, aes>>
  /\ Unchanged_main

\* mutant: ae.shutdown() at the end of the try block instead of in finally,
\* so that the except path leaves the AE open
SendFinallySkipOnError(i) ==
  /\ i \in 1..Len(futures)
  /\ futures[i].at = "recorded"
  /\ aes' = IF futures[i].path \in ExceptionPaths THEN aes
            ELSE ShutdownAe(futures[i].ae)
  /\ futures' = [futures EXCEPT ![i].at = "done", ![i].start = 0,
                                ![i].status = None]
  /\ UNCHANGED <<clock, samples>>
  /\ Unchanged_main

\* lines 105-106: finally: ae.shutdown(), then the call returns or, when
\* shutdown raises, ends with that exception
SendFinally(i) ==
  /\ i \in 1..Len(futures)
  /\ futures[i].at = "recorded"
  /\ aes' = ShutdownAe(futures[i].ae)
  /\ \/ futures' = [futures EXCEPT ![i].at = "done", ![i].start = 0,
                                   ![i].status = None]
     \/ \* ae.shutdown() raises
        futures' = [futures EXCEPT ![i].at = "raised", ![i].start = 0,
                                   ![i].status = None]
  /\ UNCHANGED <<clock, samples>>
  /\ Unchanged_main

\* ------------------------------------------------------- get_image_index
MaxImages == 3
MaxRow == 7
\* the frames the interpreter allows before it raises RecursionError
RecursionLimit == 1000
\* the row indices tried: small ones, and one beyond the recursion limit
Rows == (0..MaxRow) \cup {RecursionLimit + MaxRow}

\* no call of get_image_index made yet
NoIndexCall ==
  [at |-> "idle", n |-> 0, t0 |-> 0, t |-> 0, depth |-> 0, result |-> 0]

Unchanged_index ==
  UNCHANGED <<pc, clock, stop_at, next_send_time, period, concurrency,
              total_sent, datasets, ds_cycle, futures, aes, samples, lock,
              th, hist, late_submits, environ, config, ping>>

\* get_image_index(n, t) is called
GetImageIndexCall ==
  /\ index_call.at = "idle"
  /\ \E n \in 0..MaxImages, t \in Rows :
       index_call' = [at |-> "frame", n |-> n, t0 |-> t, t |-> t, depth |-> 1,
                      result |-> 0]
  /\ Unchanged_index

\* one frame: if t < n: return t, which every outer frame returns in turn;
\* else the call get_image_index(n, t - n), which raises RecursionError
\* when no further frame is allowed
GetImageIndexFrame ==
  /\ index_call.at = "frame"
  /\ index_call' =
       IF index_call.t < index_call.n
       THEN [index_call EXCEPT !.at = "returned", !.result = index_call.t]
       ELSE IF index_call.depth >= RecursionLimit
       THEN [index_call EXCEPT !.at = "raised"]
       ELSE [index_call EXCEPT !.t = @ - index_call.n, !.depth = @ + 1]
  /\ Unchanged_index

\* ------------------------------------------------------------------ ping
MaxPings == 2

\* no call of ping made yet
NoPing ==
  [at |-> "idle", ae |-> 0, established |-> FALSE, echoed |-> FALSE,
   status |-> None, result |-> None, exc |-> FALSE, calls |-> 0]

\* mutant: return bool(status)
PingResultAnyStatus(status) ==
  IF status = None \/ status = "Empty" THEN "False" ELSE "True"

\* line 178: bool(status) and status.Status == 0x0000
PingResult(status) ==
  IF status = None \/ status = "Empty" THEN "False"
  ELSE IF status = StatusSuccess THEN "True" ELSE "False"

Unchanged_ping ==
  UNCHANGED <<pc, clock, stop_at, next_send_time, period, concurrency,
              total_sent, datasets, ds_cycle, futures, lock, th, hist,
              late_submits, environ, config, index_call>>

\* line 165: ae = self._build_ae(), outside the try block
PingBuild ==
  /\ ping.at \in {"idle", "returned", "raised"}
  /\ ping.calls < MaxPings
  /\ \/ /\ aes' = Append(aes, [open |-> TRUE, shutdowns |-> 0, users |-> {0}])
        /\ ping' = [NoPing EXCEPT !.at = "built", !.ae = Len(aes) + 1,
                                  !.calls = ping.calls + 1]
     \/ \* _build_ae raises
        /\ ping' = [NoPing EXCEPT !.at = "raised", !.exc = TRUE,
                                  !.calls = ping.calls + 1]
        /\ UNCHANGED aes
  /\ UNCHANGED samples
  /\ Unchanged_ping

\* lines 168-175: ae.associate(...); if not assoc.is_established: return False
PingAssociate ==
  /\ ping.at = "built"
  /\ \/ ping' = [ping EXCEPT !.at = "associated", !.established = TRUE]
     \/ ping' = [ping EXCEPT !.at = "finally", !.result = "False"]
     \/ \* associate raises
        ping' = [ping EXCEPT !.at = "finally", !.exc = TRUE]
  /\ UNCHANGED <<aes, samples>>
  /\ Unchanged_ping

\* line 176: status = assoc.send_c_echo()
PingEcho ==
  /\ ping.at = "associated"
  /\ \/ \E status \in StoreStatuses :
          ping' = [ping EXCEPT !.at = "echoed", !.echoed = TRUE, !.status = status]
     \/ \* send_c_echo raises
        ping' = [ping EXCEPT !.at = "finally", !.exc = TRUE]
  /\ UNCHANGED <<aes, samples>>
  /\ Unchanged_ping

\* lines 177-178: assoc.release(); return bool(status) and status.Status == 0x0000
PingRelease ==
  /\ ping.at = "echoed"
  /\ \/ ping' = [ping EXCEPT !.at = "finally", !.result = PingResult(ping.status)]
     \/ \* release raises
        ping' = [ping EXCEPT !.at = "finally", !.exc = TRUE]
  /\ UNCHANGED <<aes, samples>>
  /\ Unchanged_ping

\* lines 179-180: finally: ae.shutdown(); then the return value or the
\* exception goes to the caller; an exception of shutdown replaces either
PingFinally ==
  /\ ping.at = "finally"
  /\ aes' = ShutdownAe(ping.ae)
  /\ \/ ping' = [ping EXCEPT !.at = IF ping.exc THEN "raised" ELSE "returned"]
     \/ \* ae.shutdown() raises
        ping' = [ping EXCEPT !.at = "raised", !.exc = TRUE, !.result = None]
  /\ UNCHANGED samples
  /\ Unchanged_ping

\* ------------------------------------------------- load_test_for_duration
Unchanged_workers ==
  UNCHANGED <<futures, aes, samples, lock, th, hist, late_submits, environ, config, ping, index_call>>

\* mutant: the period is the rate itself, not its inverse
BeginWithPeriodIsRate(conc, rate, duration_seconds, n) ==
  /\ pc = "idle"
  /\ LET c == IF conc = <<>> THEN load_profile.concurrency ELSE conc[1]
         target_rate == IF rate = <<>>
                        THEN load_profile.peak_images_per_second
                             * load_profile.load_multiplier
                        ELSE rate[1]
     IN /\ period' = IF target_rate > 0 THEN target_rate ELSE 0
        /\ stop_at' = clock + duration_seconds * TicksPerSecond
        /\ datasets' = n
        /\ concurrency' = c
        /\ pc' = IF c <= 0 THEN "raised" ELSE "loop"
  /\ total_sent' = 0
  /\ ds_cycle' = 0
  /\ next_send_time' = clock
  /\ UNCHANGED <<clock>>
  /\ Unchanged_workers

\* lines 119-139: defaults, period, stop_at, the cycle, the executor, for
\* the arguments concurrency, rate_limit_images_per_second, duration_seconds
\* and a dataset sequence of n items
BeginWith(conc, rate, duration_seconds, n) ==
  /\ pc = "idle"
  /\ LET c == IF conc = <<>> THEN load_profile.concurrency ELSE conc[1]
         target_rate == IF rate = <<>>
                        THEN load_profile.peak_images_per_second
                             * load_profile.load_multiplier
                        ELSE rate[1]
     IN /\ period' = IF target_rate > 0 THEN TicksPerSecond \div target_rate ELSE 0
        /\ stop_at' = clock + duration_seconds * TicksPerSecond
        /\ datasets' = n
        /\ concurrency' = c
        \* ThreadPoolExecutor(max_workers=0) raises ValueError, before the try
        /\ pc' = IF c <= 0 THEN "raised" ELSE "loop"
  /\ total_sent' = 0
  /\ ds_cycle' = 0
  /\ next_send_time' = clock
  /\ UNCHANGED <<clock>>
  /\ Unchanged_workers

\* load_test_for_duration is called
Begin ==
  \E conc \in Optional(0..MaxConcurrency),
     rate \in Optional(Rates),
     duration_seconds \in 0..MaxDuration,
     n \in 0..MaxDatasets :
    BeginWith(conc, rate, duration_seconds, n)

\* mutant: while time.perf_counter() <= stop_at
LoopTestInclusive ==
  /\ pc = "loop"
  /\ total_sent < MaxSent \/ clock > stop_at
  /\ pc' = IF clock <= stop_at THEN "pace" ELSE "drain"
  /\ UNCHANGED <<clock, stop_at, next_send_time, period, concurrency, total_sent,
                 datasets, ds_cycle>>
  /\ Unchanged_workers

\* mutant: a do-while loop, whose first iteration runs whatever the clock
LoopTestFirstFree ==
  /\ pc = "loop"
  /\ total_sent < MaxSent \/ clock >= stop_at
  /\ pc' = IF total_sent = 0 \/ clock < stop_at THEN "pace" ELSE "drain"
  /\ UNCHANGED <<clock, stop_at, next_send_time, period, concurrency, total_sent,
                 datasets, ds_cycle>>
  /\ Unchanged_workers

\* line 142: while time.perf_counter() < stop_at
LoopTest ==
  /\ pc = "loop"
  /\ total_sent < MaxSent \/ clock >= stop_at
  /\ pc' = IF clock < stop_at THEN "pace" ELSE "drain"
  /\ UNCHANGED <<clock, stop_at, next_send_time, period, concurrency, total_sent,
                 datasets, ds_cycle>>
  /\ Unchanged_workers

\* lines 143-145: now = perf_counter(); sleep when the next send is not due
Pace ==
  /\ pc = "pace"
  /\ pc' = IF period > 0 /\ clock < next_send_time THEN "sleep" ELSE "submit"
  /\ UNCHANGED <<clock, stop_at, next_send_time, period, concurrency, total_sent,
                 datasets, ds_cycle>>
  /\ Unchanged_workers

\* time.sleep(next_send_time - now) returns once that long has passed
Wake ==
  /\ pc = "sleep"
  /\ clock >= next_send_time
  /\ pc' = "submit"
  /\ UNCHANGED <<clock, stop_at, next_send_time, period, concurrency, total_sent,
                 datasets, ds_cycle>>
  /\ Unchanged_workers

\* line 145 with a sleep that wakes at the requested time: now + (next_send_time - now)
WakeOnTime ==
  /\ pc = "sleep"
  /\ clock' = next_send_time
  /\ pc' = "submit"
  /\ UNCHANGED <<stop_at, next_send_time, period, concurrency, total_sent,
                 datasets, ds_cycle>>
  /\ Unchanged_workers

\* a dataset source that never ends (a generator), as the value of `datasets`
Generator == -1

\* mutant: iter(datasets) that keeps handing out its last item
NextItemNoWrap(n, k) == IF n = Generator \/ k < n THEN k ELSE n - 1

\* the item the k-th next(ds_cycle) hands out, counting from 0, for
\* itertools.cycle over a sequence of n >= 1 items (the items in order, then
\* the saved copies in the same order, again and again) or over a generator
\* (each value as the generator yields it)
NextItem(n, k) == IF n = Generator THEN k ELSE k % n

\* mutant: an empty source yields nothing and the loop goes on
SubmitSkipsEmpty ==
  /\ pc = "submit"
  /\ next_send_time' = clock + period
  /\ IF datasets = 0
     THEN /\ pc' = "loop"
          /\ UNCHANGED <<futures, total_sent, ds_cycle, late_submits>>
     ELSE /\ futures' = Append(futures, NewCall(NextItem(datasets, ds_cycle)))
          /\ ds_cycle' = ds_cycle + 1
          /\ total_sent' = total_sent + 1
          /\ late_submits' = IF clock >= stop_at THEN late_submits + 1
                              ELSE late_submits
          /\ pc' = "loop"
  /\ UNCHANGED <<clock, stop_at, period, concurrency, datasets, aes, samples>>
  /\ UNCHANGED metrics_vars
  /\ UNCHANGED config_vars
  /\ UNCHANGED <<ping, index_call>>

\* lines 146-152: next_send_time, next(ds_cycle), executor.submit, total_sent
Submit ==
  /\ pc = "submit"
  /\ next_send_time' = clock + period
  /\ IF datasets = 0
     THEN \* next() of a cycle over nothing raises StopIteration
          /\ pc' = "unwind"
          /\ UNCHANGED <<futures, total_sent, ds_cycle, late_submits>>
     ELSE /\ futures' = Append(futures, NewCall(NextItem(datasets, ds_cycle)))
          /\ ds_cycle' = ds_cycle + 1
          /\ total_sent' = total_sent + 1
          /\ late_submits' = IF clock >= stop_at THEN late_submits + 1
                              ELSE late_submits
          /\ pc' = "loop"
  /\ UNCHANGED <<clock, stop_at, period, concurrency, datasets, aes, samples>>
  /\ UNCHANGED metrics_vars
  /\ UNCHANGED config_vars
  /\ UNCHANGED <<ping, index_call>>

\* mutant: the futures are waited for, their results never asked for
DrainWithoutResult ==
  /\ pc = "drain"
  /\ \A i \in 1..Len(futures) : futures[i].at \in {"done", "raised"}
  /\ pc' = "shutdown"
  /\ UNCHANGED <<clock, stop_at, next_send_time, period, concurrency, total_sent,
                 datasets, ds_cycle>>
  /\ Unchanged_workers

\* lines 154-155: for f in as_completed(futures): f.result()
Drain ==
  /\ pc = "drain"
  /\ \/ /\ \A i \in 1..Len(futures) : futures[i].at = "done"
        /\ pc' = "shutdown"
     \/ /\ \E i \in 1..Len(futures) : futures[i].at = "raised"
        /\ pc' = "unwind"
  /\ UNCHANGED <<clock, stop_at, next_send_time, period, concurrency, total_sent,
                 datasets, ds_cycle>>
  /\ Unchanged_workers

\* mutant: executor.shutdown(wait=True, cancel_futures=True)
ShutdownCancelFutures ==
  /\ pc \in {"shutdown", "unwind"}
  /\ \A i \in 1..Len(futures) : Finished(i) \/ futures[i].at = "queued"
  /\ futures' = [i \in 1..Len(futures) |->
                   IF futures[i].at = "queued"
                   THEN [futures[i] EXCEPT !.at = "cancelled"] ELSE futures[i]]
  /\ pc' = IF pc = "shutdown" THEN "returned" ELSE "raised"
  /\ UNCHANGED <<clock, stop_at, next_send_time, period, concurrency, total_sent,
                 datasets, ds_cycle, aes, samples, lock, th, hist, late_submits,
                 environ, config, ping, index_call>>

\* lines 156-159: finally: executor.shutdown(wait=True); return total_sent
Shutdown ==
  /\ pc \in {"shutdown", "unwind"}
  /\ \A i \in 1..Len(futures) : Finished(i)
  /\ pc' = IF pc = "shutdown" THEN "returned" ELSE "raised"
  /\ UNCHANGED <<clock, stop_at, next_send_time, period, concurrency, total_sent,
                 datasets, ds_cycle>>
  /\ Unchanged_workers

\* the clock advances; followed up to MaxClock, and further while the main
\* thread sleeps, up to the time it sleeps until
Tick ==
  /\ pc \notin {"idle", "returned", "raised"}
  /\ clock < MaxClock \/ (pc = "sleep" /\ clock < next_send_time)
  /\ clock' = clock + 1
  /\ UNCHANGED <<pc, stop_at, next_send_time, period, concurrency, total_sent,
                 datasets, ds_cycle, futures, aes, samples, late_submits>>
  /\ UNCHANGED metrics_vars
  /\ UNCHANGED config_vars
  /\ UNCHANGED <<ping, index_call>>

\* --------------------------------------------- callers of PerfMetrics
NumThreads == 2
MaxSamples == 3
Threads == 1..NumThreads

\* the samples handed to record()
SampleInputs ==
  {Sample(0, 1, "True", StatusSuccess, NoError),
   Sample(0, 2, "True", StatusSuccess, NoError),
   Sample(0, 1, "False", None, <<"Association failed">>)}

\* the calls a thread can make
ReadOps == {"total", "successes", "failures", "error_rate", "min_latency_ms",
            "avg_latency_ms", "p95_latency_ms", "throughput_per_second",
            "snapshot"}

\* the copies of the list (self.samples) a call takes, in order; error_rate
\* reads total (line 66), then failures and total again (line 68)
Plan(op) ==
  CASE op = "error_rate" -> <<"total0", "failures", "total">>
    [] op = "snapshot" ->
         <<"total", "successes", "failures", "total0", "failures", "total",
           "min_latency_ms", "avg_latency_ms", "p95_latency_ms",
           "throughput_per_second">>
    [] OTHER -> <<op>>

\* what one property computes from its own copy of the list
ReadValue(name, list) ==
  CASE name \in {"total", "total0"} -> Total(list)
    [] name = "successes" -> Successes(list)
    [] name = "failures" -> Failures(list)
    [] name = "min_latency_ms" -> MinLatency(list)
    [] name = "avg_latency_ms" -> AvgLatency(list)
    [] name = "p95_latency_ms" -> P95Latency(list)
    [] name = "throughput_per_second" -> Throughput(list, <<>>)

\* mutant: the throughput of the dict is taken up to the time of the call
SnapshotThroughputToNow(v) ==
  [total |-> v[1], successes |-> v[2], failures |-> v[3],
   error_rate |-> ErrorRateOf(v[4], v[5], v[6]),
   min_latency_ms |-> v[7], avg_latency_ms |-> v[8], p95_latency_ms |-> v[9],
   throughput_per_second |-> <<v[1], v[11] + 1>>, timestamp |-> v[11]]

\* the dict of snapshot() from the values its properties returned
SnapshotOf(v) ==
  [total |-> v[1], successes |-> v[2], failures |-> v[3],
   error_rate |-> ErrorRateOf(v[4], v[5], v[6]),
   min_latency_ms |-> v[7], avg_latency_ms |-> v[8], p95_latency_ms |-> v[9],
   throughput_per_second |-> v[10], timestamp |-> v[11]]

\* what a returned call returned
Result(t) ==
  CASE th[t].op = "error_rate" ->
         ErrorRateOf(th[t].vals[1], th[t].vals[2], th[t].vals[3])
    [] th[t].op = "snapshot" -> SnapshotOf(th[t].vals)
    [] OTHER -> th[t].vals[1]

IdleThread == [op |-> "idle", at |-> "idle", vals |-> <<>>, len0 |-> 0, arg |-> <<>>]

Unchanged_driver ==
  UNCHANGED <<pc, stop_at, next_send_time, period, concurrency, total_sent,
              datasets, ds_cycle, futures, aes, late_submits, environ, config, ping, index_call>>

\* a thread calls record(sample) or reads a property or calls snapshot()
Call(t) ==
  /\ th[t].at = "idle"
  /\ \/ \E sample \in SampleInputs :
          /\ Len(samples)
               + Cardinality({u \in Threads : th[u].op = "record"
                                              /\ th[u].at # "returned"})
               < MaxSamples
          /\ th' = [th EXCEPT ![t] = [op |-> "record", at |-> "waiting",
                      vals |-> <<>>, len0 |-> Len(samples), arg |-> <<sample>>]]
     \/ \E op \in ReadOps :
          \* reads do not interact: one read call at a time is followed
          /\ \A u \in Threads : th[u].op \in {"idle", "record"}
          /\ th' = [th EXCEPT ![t] = [op |-> op, at |-> "waiting", vals |-> <<>>,
                      len0 |-> Len(samples), arg |-> <<>>]]
  /\ UNCHANGED <<clock, samples, lock, hist>>
  /\ Unchanged_driver

\* with self._lock: entered
Acquire(t) ==
  /\ th[t].at = "waiting"
  /\ lock = 0
  /\ lock' = t
  /\ th' = [th EXCEPT ![t].at = "locked"]
  /\ UNCHANGED <<clock, samples, hist>>
  /\ Unchanged_driver

\* record, lines 44-45: the append under the lock, the lock released
RecordLocked(t) ==
  /\ th[t].at = "locked"
  /\ th[t].op = "record"
  /\ samples' = RecordAppend(samples, th[t].arg[1])
  /\ lock' = 0
  /\ th' = [th EXCEPT ![t].at = "returned"]
  /\ hist' = [hist EXCEPT !.recorded = @ (+) SetToBag({th[t].arg[1]})]
  /\ UNCHANGED clock
  /\ Unchanged_driver

\* samples, lines 49-50: the copy under the lock, the lock released, and
\* what the reading property computes from the copy; snapshot() ends by
\* reading time.time(), which has not gone back since it was last read
ReadLocked(t) ==
  /\ th[t].at = "locked"
  /\ th[t].op # "record"
  /\ LET plan == Plan(th[t].op)
         name == plan[Len(th[t].vals) + 1]
         \* throughput_per_second is the one read that takes an argument
         v == IF name = "throughput_per_second"
              THEN Throughput(samples, th[t].arg)
              ELSE ReadValue(name, samples)
         \* line 66-67: if self.total == 0: return 0.0
         got == IF name = "total0" /\ v = 0
                THEN th[t].vals \o <<0, 0, 0>>
                ELSE Append(th[t].vals, v)
     IN IF Len(got) = Len(plan) /\ th[t].op = "snapshot"
        THEN \E now \in clock..MaxClock :
               /\ clock' = now
               /\ th' = [th EXCEPT ![t].vals = Append(got, now), ![t].at = "returned"]
        ELSE /\ th' = [th EXCEPT ![t].vals = got,
                         ![t].at = IF Len(got) = Len(plan) THEN "returned"
                                   ELSE "waiting"]
             /\ UNCHANGED clock
  /\ lock' = 0
  /\ UNCHANGED <<samples, hist>>
  /\ Unchanged_driver

\* the caller goes on to its next call
Return(t) ==
  /\ th[t].at = "returned"
  /\ th' = [th EXCEPT ![t] = IdleThread]
  /\ UNCHANGED <<clock, samples, lock, hist>>
  /\ Unchanged_driver

Init ==
  /\ pc = "idle"
  /\ clock = 0
  /\ stop_at = 0
  /\ next_send_time = 0
  /\ period = 0
  /\ concurrency = 0
  /\ total_sent = 0
  /\ datasets = 0
  /\ ds_cycle = 0
  /\ futures = <<>>
  /\ aes = <<>>
  /\ samples = <<>>
  /\ lock = 0
  /\ th = [t \in Threads |-> IdleThread]
  /\ hist = [initial |-> <<>>, recorded |-> EmptyBag]
  /\ late_submits = 0
  /\ environ = NoEnviron
  /\ config = NoConfig
  /\ ping = NoPing
  /\ index_call = NoIndexCall

Worker ==
  \E i \in 1..MaxSent :
    \/ SendStart(i)
    \/ SendTry(i)
    \/ SendFinally(i)

Next ==
  \/ Begin
  \/ LoopTest
  \/ Pace
  \/ Wake
  \/ Submit
  \/ Drain
  \/ Shutdown
  \/ Tick
  \/ Worker

Spec == Init /\ [][Next]_vars

\* the rate_limit_images_per_second of the calls followed to their end
RunRates == {1}

\* load_test_for_duration after lines 119-139, called with a positive
\* duration, a dataset source that is not empty and a pool of at least one
\* worker
InitRun ==
  /\ pc = "loop"
  /\ clock = 0
  /\ \E duration_seconds \in 1..MaxDuration :
       stop_at = clock + duration_seconds * TicksPerSecond
  /\ next_send_time = clock
  /\ \E target_rate \in RunRates : period = TicksPerSecond \div target_rate
  /\ concurrency \in 1..MaxConcurrency
  /\ total_sent = 0
  /\ datasets \in 1..MaxDatasets
  /\ ds_cycle = 0
  /\ futures = <<>>
  /\ aes = <<>>
  /\ samples = <<>>
  /\ lock = 0
  /\ th = [t \in Threads |-> IdleThread]
  /\ hist = [initial |-> <<>>, recorded |-> EmptyBag]
  /\ late_submits = 0
  /\ environ = NoEnviron
  /\ config = NoConfig
  /\ ping = NoPing
  /\ index_call = NoIndexCall

\* the steps of the main thread from the while loop on
Main == LoopTest \/ Pace \/ Wake \/ Submit \/ Drain \/ Shutdown

NextRun == Main \/ Tick \/ Worker

\* the main thread and every worker thread keep being scheduled, time keeps
\* passing, and every call a worker makes into the transport comes back
FairSpec ==
  /\ InitRun
  /\ [][NextRun]_vars
  /\ WF_vars(Main)
  /\ WF_vars(Tick)
  /\ \A i \in 1..MaxSent :
       WF_vars(SendStart(i)) /\ WF_vars(SendTry(i)) /\ WF_vars(SendFinally(i))

\* a run in which time passes in the pacing sleeps alone: every sleep wakes
\* at the requested time and nothing else takes any time
NextPaced ==
  \/ Begin
  \/ LoopTest
  \/ Pace
  \/ WakeOnTime
  \/ Submit
  \/ Drain
  \/ Shutdown
  \/ Worker

SpecPaced == Init /\ [][NextPaced]_vars

\* a collector that may already hold samples, and its callers
InitMetrics ==
  /\ pc = "idle"
  /\ clock = 0
  /\ stop_at = 0
  /\ next_send_time = 0
  /\ period = 0
  /\ concurrency = 0
  /\ total_sent = 0
  /\ datasets = 0
  /\ ds_cycle = 0
  /\ futures = <<>>
  /\ aes = <<>>
  /\ samples \in {<<>>} \cup {<<s>> : s \in SampleInputs}
  /\ lock = 0
  /\ th = [t \in Threads |-> IdleThread]
  /\ hist = [initial |-> samples, recorded |-> EmptyBag]
  /\ late_submits = 0
  /\ environ = NoEnviron
  /\ config = NoConfig
  /\ ping = NoPing
  /\ index_call = NoIndexCall

Caller ==
  \E t \in Threads :
    \/ Call(t)
    \/ Acquire(t)
    \/ RecordLocked(t)
    \/ ReadLocked(t)
    \/ Return(t)

NextMetrics == Caller

SpecMetrics == InitMetrics /\ [][NextMetrics]_vars

\* the sender with a collector that may already hold samples; ping is
\* called on it, one call after the other
InitPing ==
  /\ pc = "idle"
  /\ clock = 0
  /\ stop_at = 0
  /\ next_send_time = 0
  /\ period = 0
  /\ concurrency = 0
  /\ total_sent = 0
  /\ datasets = 0
  /\ ds_cycle = 0
  /\ futures = <<>>
  /\ aes = <<>>
  /\ samples \in {<<>>} \cup {<<s>> : s \in SampleInputs}
  /\ lock = 0
  /\ th = [t \in Threads |-> IdleThread]
  /\ hist = [initial |-> samples, recorded |-> EmptyBag]
  /\ late_submits = 0
  /\ environ = NoEnviron
  /\ config = NoConfig
  /\ ping = NoPing
  /\ index_call = NoIndexCall

NextPing ==
  \/ PingBuild
  \/ PingAssociate
  \/ PingEcho
  \/ PingRelease
  \/ PingFinally

SpecPing == InitPing /\ [][NextPing]_vars

\* runs long enough for a dataset sequence to wrap around: one worker, a
\* period of one tick, sleeps that wake on time, MaxCycleSent submissions,
\* over a sequence of 1 or 2 items or a generator
MaxCycleSent == 3

\* load_test_for_duration after lines 119-139 of such a call
InitCycle ==
  /\ pc = "loop"
  /\ clock = 0
  /\ stop_at = clock + MaxCycleSent - 1
  /\ next_send_time = clock
  /\ period = 1
  /\ concurrency = 1
  /\ total_sent = 0
  /\ datasets \in {1, 2, Generator}
  /\ ds_cycle = 0
  /\ futures = <<>>
  /\ aes = <<>>
  /\ samples = <<>>
  /\ lock = 0
  /\ th = [t \in Threads |-> IdleThread]
  /\ hist = [initial |-> <<>>, recorded |-> EmptyBag]
  /\ late_submits = 0
  /\ environ = NoEnviron
  /\ config = NoConfig
  /\ ping = NoPing
  /\ index_call = NoIndexCall

\* line 142, followed for up to MaxCycleSent submissions
LoopTestCycle ==
  /\ pc = "loop"
  /\ total_sent < MaxCycleSent \/ clock >= stop_at
  /\ pc' = IF clock < stop_at THEN "pace" ELSE "drain"
  /\ UNCHANGED <<clock, stop_at, next_send_time, period, concurrency, total_sent,
                 datasets, ds_cycle>>
  /\ Unchanged_workers

WorkerCycle ==
  \E i \in 1..MaxCycleSent :
    \/ SendStart(i)
    \/ SendTry(i)
    \/ SendFinally(i)

NextCycle ==
  \/ LoopTestCycle
  \/ Pace
  \/ WakeOnTime
  \/ Submit
  \/ Drain
  \/ Shutdown
  \/ WorkerCycle

SpecCycle == InitCycle /\ [][NextCycle]_vars

\* get_image_index called once, with any of the arguments tried
InitIndex ==
  /\ pc = "idle"
  /\ clock = 0
  /\ stop_at = 0
  /\ next_send_time = 0
  /\ period = 0
  /\ concurrency = 0
  /\ total_sent = 0
  /\ datasets = 0
  /\ ds_cycle = 0
  /\ futures = <<>>
  /\ aes = <<>>
  /\ samples = <<>>
  /\ lock = 0
  /\ th = [t \in Threads |-> IdleThread]
  /\ hist = [initial |-> <<>>, recorded |-> EmptyBag]
  /\ late_submits = 0
  /\ environ = NoEnviron
  /\ config = NoConfig
  /\ ping = NoPing
  /\ index_call = NoIndexCall

NextIndex ==
  \/ GetImageIndexCall
  \/ GetImageIndexFrame

SpecIndex == InitIndex /\ [][NextIndex]_vars

\* ------------------------------- one caller, collectors of many shapes
MaxN == 21
Orders == {"ascending", "descending", "rotated", "equal"}

\* the latency, in ticks, of the i-th of n successful samples
LatencyAt(order, n, i) ==
  CASE order = "ascending" -> i
    [] order = "descending" -> n + 1 - i
    [] order = "rotated" -> (i % n) + 1
    [] order = "equal" -> 1

SuccessAt(order, n, i) ==
  Sample(i % 2, (i % 2) + LatencyAt(order, n, i), "True", StatusSuccess, NoError)

\* failed Samples as _send_single_dataset records them: success is False,
\* or the falsy status itself (None, an empty Dataset)
FailedSamples ==
  <<Sample(0, 3, "False", None, <<"Association failed">>),
    Sample(1, 1, None, None, <<"Non-success status", None>>)>>

\* n successful samples in the given order, a failed one before them when
\* fails >= 1 and another after them when fails >= 2
StatList(order, n, fails) ==
  (IF fails >= 1 THEN <<FailedSamples[1]>> ELSE <<>>)
    \o [i \in 1..n |-> SuccessAt(order, n, i)]
    \o (IF fails >= 2 THEN <<FailedSamples[2]>> ELSE <<>>)

StatLists == {StatList(order, n, fails) : order \in Orders, n \in 0..MaxN,
                                          fails \in 0..2}

\* the samples handed to record(): failed ones of short and long latency,
\* and a successful one
RecordInputs ==
  {Sample(0, 0, "False", "0xA700", <<"Non-success status", "0xA700">>),
   Sample(0, MaxN + 2, "False", None, <<"exception", "associate">>),
   Sample(2, 2, "Empty", None, <<"Non-success status", "Empty">>),
   Sample(1, 3, "True", StatusSuccess, NoError)}

\* the window_seconds handed to throughput_per_second, in ticks
Windows == {-1, 0, 1, 2}

InitStats ==
  /\ pc = "idle"
  /\ clock = 0
  /\ stop_at = 0
  /\ next_send_time = 0
  /\ period = 0
  /\ concurrency = 0
  /\ total_sent = 0
  /\ datasets = 0
  /\ ds_cycle = 0
  /\ futures = <<>>
  /\ aes = <<>>
  /\ samples \in StatLists
  /\ lock = 0
  /\ th = [t \in Threads |-> IdleThread]
  /\ hist = [initial |-> samples, recorded |-> EmptyBag]
  /\ late_submits = 0
  /\ environ = NoEnviron
  /\ config = NoConfig
  /\ ping = NoPing
  /\ index_call = NoIndexCall

\* the caller reads a property, asks for the throughput of a window, or
\* records one more sample
CallStat(t) ==
  /\ th[t].at = "idle"
  /\ \/ \E op \in ReadOps \ {"snapshot"} :
          th' = [th EXCEPT ![t] = [op |-> op, at |-> "waiting", vals |-> <<>>,
                   len0 |-> Len(samples), arg |-> <<>>]]
     \/ \E w \in Windows :
          th' = [th EXCEPT ![t] = [op |-> "throughput_per_second",
                   at |-> "waiting", vals |-> <<>>, len0 |-> Len(samples),
                   arg |-> <<w>>]]
     \/ \E sample \in RecordInputs :
          /\ Len(samples) = Len(hist.initial)
          /\ th' = [th EXCEPT ![t] = [op |-> "record", at |-> "waiting",
                      vals |-> <<>>, len0 |-> Len(samples), arg |-> <<sample>>]]
  /\ UNCHANGED <<clock, samples, lock, hist>>
  /\ Unchanged_driver

NextStats ==
  \/ CallStat(1)
  \/ Acquire(1)
  \/ RecordLocked(1)
  \/ ReadLocked(1)
  \/ Return(1)

SpecStats == InitStats /\ [][NextStats]_vars

\* ------------------------- one caller that keeps the dict it got last
InitSequential ==
  /\ pc = "idle"
  /\ clock = 0
  /\ stop_at = 0
  /\ next_send_time = 0
  /\ period = 0
  /\ concurrency = 0
  /\ total_sent = 0
  /\ datasets = 0
  /\ ds_cycle = 0
  /\ futures = <<>>
  /\ aes = <<>>
  /\ samples \in {<<>>} \cup {<<s>> : s \in SampleInputs}
  /\ lock = 0
  /\ th = [t \in Threads |-> IdleThread]
  /\ hist = [initial |-> samples, recorded |-> EmptyBag, last |-> <<>>]
  /\ late_submits = 0
  /\ environ = NoEnviron
  /\ config = NoConfig
  /\ ping = NoPing
  /\ index_call = NoIndexCall

\* the caller goes on to its next call; the dict of a snapshot() is kept,
\* with the length the list had
ReturnKeep(t) ==
  /\ th[t].at = "returned"
  /\ th' = [th EXCEPT ![t] = IdleThread]
  /\ hist' = IF th[t].op = "snapshot"
             THEN [hist EXCEPT !.last = <<[dict |-> Result(t), len |-> Len(samples)]>>]
             ELSE hist
  /\ UNCHANGED <<clock, samples, lock>>
  /\ Unchanged_driver

NextSequential ==
  \/ Call(1)
  \/ Acquire(1)
  \/ RecordLocked(1)
  \/ ReadLocked(1)
  \/ ReturnKeep(1)

SpecSequential == InitSequential /\ [][NextSequential]_vars

\* --------------------------------- the configuration of a process
\* a process started with any of the variables set or not set
InitConfig ==
  /\ pc = "idle"
  /\ clock = 0
  /\ stop_at = 0
  /\ next_send_time = 0
  /\ period = 0
  /\ concurrency = 0
  /\ total_sent = 0
  /\ datasets = 0
  /\ ds_cycle = 0
  /\ futures = <<>>
  /\ aes = <<>>
  /\ samples = <<>>
  /\ lock = 0
  /\ th = [t \in Threads |-> IdleThread]
  /\ hist = [initial |-> <<>>, recorded |-> EmptyBag]
  /\ late_submits = 0
  /\ environ \in [EnvNames -> UNION {Optional(EnvTexts(name)) : name \in EnvNames}]
  /\ \A name \in EnvNames : environ[name] \in Optional(EnvTexts(name))
  /\ config = NoConfig
  /\ ping = NoPing
  /\ index_call = NoIndexCall

NextConfig == EndpointFromEnv \/ LoadProfileFromEnv

SpecConfig == InitConfig /\ [][NextConfig]_vars

\* ------------------------------------------------------------- properties
Calls == 1..Len(futures)

\* error_rate read when no record() runs beside it
ErrorRate(list) == ErrorRateOf(Total(list), Failures(list), Total(list))

\* the Samples of the list are, one for one, those the calls recorded
SamplesAreTheCallsSamples ==
  LET rec == {i \in Calls : futures[i].recs >= 1}
  IN /\ {futures[i].sample : i \in rec} = 1..Len(samples)
     /\ \A i, j \in rec : futures[i].sample = futures[j].sample => i = j

\* C1: when load_test_for_duration returns normally on a collector that was
\* empty at the start, total_sent equals metrics.total: every submitted call
\* has recorded exactly one Sample and every Sample is that of a counted call.
C1_TotalSentIsTotal ==
  pc = "returned" =>
    /\ total_sent = Total(samples)
    /\ Len(futures) = total_sent
    /\ \A i \in Calls : futures[i].recs = 1
    /\ SamplesAreTheCallsSamples

C1_Witness ==
  /\ pc = "returned"
  /\ total_sent >= 2
  /\ concurrency >= 2
  /\ \E i \in Calls : futures[i].path \in ExceptionPaths

\* C2: the list is the list at construction followed by exactly the samples
\* of the record() calls that have returned, each once; nothing is lost,
\* duplicated or moved, whatever the interleaving of the callers.
C2_RecordAppendsExactlyOnce ==
  LET n0 == Len(hist.initial)
      rest == SubSeq(samples, n0 + 1, Len(samples))
  IN /\ Len(samples) = n0 + BagCardinality(hist.recorded)
     /\ SubSeq(samples, 1, n0) = hist.initial
     /\ \A s \in SampleInputs :
          Cardinality({k \in 1..Len(rest) : rest[k] = s}) = CopiesIn(s, hist.recorded)

C2_Witness ==
  /\ hist.initial # <<>>
  /\ \A t \in Threads : th[t].op = "record" /\ th[t].at = "returned"

\* the list as it stood when it held k samples
Prefix(list, k) == SubSeq(list, 1, k)

OptRatEq(a, b) == IF a = <<>> \/ b = <<>> THEN a = b ELSE RatEq(a, b)

\* the dict snapshot() returned describes the list `list`
SnapshotDescribes(r, list) ==
  /\ r.total = Total(list)
  /\ r.successes = Successes(list)
  /\ r.failures = Failures(list)
  /\ RatEq(r.error_rate, ErrorRate(list))
  /\ r.min_latency_ms = MinLatency(list)
  /\ OptRatEq(r.avg_latency_ms, AvgLatency(list))
  /\ r.p95_latency_ms = P95Latency(list)
  /\ RatEq(r.throughput_per_second, Throughput(list, <<>>))

\* the call thread t returned from returned what `list` gives
ResultDescribes(t, list) ==
  CASE th[t].op = "record" -> TRUE
    [] th[t].op = "snapshot" -> SnapshotDescribes(Result(t), list)
    [] th[t].op = "error_rate" -> RatEq(Result(t), ErrorRate(list))
    [] th[t].op = "avg_latency_ms" -> OptRatEq(Result(t), AvgLatency(list))
    [] th[t].op = "throughput_per_second" ->
         RatEq(Result(t), Throughput(list, <<>>))
    [] OTHER -> Result(t) = ReadValue(th[t].op, list)

\* the states of the list between the call of thread t and its return
StatesDuring(t) == {Prefix(samples, k) : k \in th[t].len0..Len(samples)}

\* C3: every dict returned by snapshot() describes one state of the list, so
\* that total = successes + failures in it, also when record() runs beside it.
C3_SnapshotConsistent ==
  \A t \in Threads :
    (th[t].op = "snapshot" /\ th[t].at = "returned") =>
      Result(t).total = Result(t).successes + Result(t).failures

\* C4: every call returns what the list gave at one instant between its
\* invocation and its return.
C4_Linearizable ==
  \A t \in Threads :
    th[t].at = "returned" =>
      \E list \in StatesDuring(t) : ResultDescribes(t, list)

\* the exit paths on which the try block or its except clause ends
RecordingPaths ==
  {"association_failed", "success", "non_success"} \cup ExceptionPaths

\* C5: a call of _send_single_dataset that ended as association failure,
\* success, non-success status or caught exception recorded exactly one
\* Sample; no call records two.
C5_ExactlyOneSample ==
  /\ \A i \in Calls : futures[i].recs <= 1
  /\ \A i \in Calls : futures[i].path \in RecordingPaths => futures[i].recs = 1
  /\ SamplesAreTheCallsSamples

C5_Witness ==
  /\ \E i \in Calls : futures[i].at = "done" /\ futures[i].path = "exception_release"
  /\ \E i \in Calls : futures[i].at = "done" /\ futures[i].path = "association_failed"

\* C6: no exception of a send operation leaves the call: every call that
\* finished returned and left one Sample, and the run is not ended by it.
C6_NoExceptionEscapes ==
  /\ \A i \in Calls : futures[i].at # "raised"
  /\ \A i \in Calls : futures[i].at = "done" => futures[i].recs = 1
  /\ pc = "raised" => (concurrency <= 0 \/ datasets = 0)

SampleOf(i) == samples[futures[i].sample]

\* the Sample of call i is what the claim gives for the returned `status`
SampleFollowsStatus(i) ==
  LET status == futures[i].status
      s == SampleOf(i)
  IN /\ Truthy(s.success) <=> status = "0x0000"
     /\ status = "0x0000" => s.status_code = "0x0000" /\ s.error = NoError
     /\ status # "0x0000" =>
          /\ s.error # NoError
          /\ s.error[Len(s.error)] = status
          /\ s.status_code = (IF status \in {None, "Empty"} THEN None ELSE status)

\* C8 as stated: whenever the association was established and send_c_store
\* returned, the Sample follows the returned status.
C8_Original ==
  \A i \in Calls :
    (futures[i].at = "recorded"
       /\ futures[i].path \in {"success", "non_success", "exception_release"})
      => SampleFollowsStatus(i)

\* C8 amended: whenever the association was established and both
\* send_c_store and release returned, the Sample follows the returned status.
C8_SampleFollowsStatus ==
  \A i \in Calls :
    (futures[i].at = "recorded" /\ futures[i].path \in {"success", "non_success"})
      => SampleFollowsStatus(i)

C8_Witness ==
  /\ \E i \in Calls : futures[i].at = "recorded" /\ futures[i].status = "0x0000"
                      /\ futures[i].path = "success"
  /\ \E i \in Calls : futures[i].at = "recorded" /\ futures[i].status = "Empty"

\* a call whose association was not established left one failed Sample with
\* the fixed reason, after one associate and no store
AssociationFailureRecorded ==
  \A i \in Calls :
    futures[i].path = "association_failed" =>
      /\ futures[i].recs = 1
      /\ futures[i].associates = 1
      /\ futures[i].stores = 0
      /\ ~Truthy(SampleOf(i).success)
      /\ SampleOf(i).error = <<"Association failed">>

\* no call of the run got an association established
ConnectNeverEstablished ==
  \A i \in Calls : futures[i].path \in {None, "association_failed", "build_raised"}

\* C9 as stated: ... and with a transport whose connect never establishes
\* every Sample of the run is failed and error_rate is 1.0.
C9_Original ==
  /\ AssociationFailureRecorded
  /\ (pc = "returned" /\ ConnectNeverEstablished) =>
       /\ \A k \in 1..Len(samples) : ~Truthy(samples[k].success)
       /\ RatEq(ErrorRate(samples), <<1, 1>>)

\* C9 amended: ... every Sample of the run is failed, and error_rate is 1.0
\* once the run has recorded a Sample (0.0 while it has recorded none).
C9_AssociationFailure ==
  /\ AssociationFailureRecorded
  /\ ConnectNeverEstablished =>
       /\ \A k \in 1..Len(samples) : ~Truthy(samples[k].success)
       /\ RatEq(ErrorRate(samples),
                IF samples = <<>> THEN <<0, 1>> ELSE <<1, 1>>)

C9_Witness ==
  /\ pc = "returned"
  /\ Len(samples) >= 2
  /\ \A i \in Calls : futures[i].path = "association_failed"

\* C10 as stated: no submission is made at a clock value at or after stop_at.
C10_Original == late_submits = 0

\* C10 amended: no loop iteration starts once the clock has reached stop_at;
\* the submission of the last iteration can fall at or after stop_at, and at
\* most one submission of a run does.
C10_DeadlineTestedPerIteration ==
  /\ late_submits <= 1
  /\ pc \in {"pace", "sleep", "submit"} => late_submits = 0
  /\ late_submits = 1 => clock >= stop_at

C10_Witness ==
  /\ pc = "returned"
  /\ late_submits = 1
  /\ total_sent >= 2

\* the main thread has left the while loop
LoopLeft == pc \in {"drain", "shutdown", "unwind", "returned", "raised"}

\* C11: once the loop is left nothing more is submitted; every submitted
\* operation, queued ones included, runs to its end and none is cancelled;
\* the call has ended only when all of them have, and has returned only when
\* each of them has returned and left its one Sample in the list.
C11_DeadlineCancelsNothing ==
  /\ [][LoopLeft => Len(futures') = Len(futures)]_vars
  /\ [](pc \in {"returned", "raised"} => \A i \in Calls : Finished(i))
  /\ [](pc = "returned" =>
          \A i \in Calls : /\ futures[i].at = "done"
                           /\ futures[i].recs = 1
                           /\ futures[i].sample \in 1..Len(samples))
  /\ \A i \in 1..MaxSent :
       (i <= Len(futures)) ~> (i <= Len(futures) /\ Finished(i))

\* an operation submitted before the deadline and still queued when it was
\* reached has run after it, and the call has returned
C11_Witness ==
  /\ pc = "returned"
  /\ late_submits = 0
  /\ \E i \in Calls : SampleOf(i).start_time >= stop_at

\* C12: the call does not return before the clock has reached stop_at, and
\* when every submitted operation terminates it eventually returns.
C12_ReturnsAfterDeadline ==
  /\ [](pc = "returned" => clock >= stop_at)
  /\ <>(pc = "returned")

\* the call thread t made has returned, and it was a call of `op`
Returned(t, op) == th[t].op = op /\ th[t].at = "returned"

\* the samples of the list that failed: those whose success is not true
FailedIn(list) == {i \in 1..Len(list) : list[i].success # "True"}

\* C13: error_rate returns failures / total of the list, exactly 0.0 for the
\* empty list; for a list that is not empty it lies in [0, 1], is 1.0 iff
\* every sample failed and 0.0 iff none did; 2 failed of 10 give 0.2.
C13_ErrorRate ==
  \A t \in Threads :
    Returned(t, "error_rate") =>
      LET r == Result(t)
          f == Cardinality(FailedIn(samples))
          n == Len(samples)
      IN /\ n = 0 => r = <<0, 1>>
         /\ n > 0 =>
              /\ r[2] > 0
              /\ RatEq(r, <<f, n>>)
              /\ 0 <= r[1] /\ r[1] <= r[2]
              /\ RatEq(r, <<1, 1>>) <=> f = n
              /\ RatEq(r, <<0, 1>>) <=> f = 0
         /\ (n = 10 /\ f = 2) => RatEq(r, <<2, 10>>)

C13_Witness ==
  /\ Returned(1, "error_rate")
  /\ Len(samples) = 10
  /\ Cardinality(FailedIn(samples)) = 2

\* the latencies, in ms, of the successful samples of the list, one per sample
SuccessfulLatencies(list) ==
  [i \in {j \in 1..Len(list) : list[j].success = "True"} |->
     ((list[i].end_time - list[i].start_time) * 1000) \div TicksPerSecond]

\* v stands at index k (from 0) of the ascending sort of the values of f:
\* at most k values are smaller, more than k are not larger
AtSortedIndex(f, k, v) ==
  /\ \E i \in DOMAIN f : f[i] = v
  /\ Cardinality({i \in DOMAIN f : f[i] < v}) <= k
  /\ Cardinality({i \in DOMAIN f : f[i] <= v}) > k

\* clamp(floor(0.95 * n) - 1, 0, n - 1)
ClampedIndex(n) ==
  LET k == (95 * n) \div 100 - 1
  IN IF k < 0 THEN 0 ELSE IF k > n - 1 THEN n - 1 ELSE k

\* C14: p95_latency_ms is None without a successful sample; with n >= 1 of
\* them it is the element at index clamp(floor(0.95 * n) - 1, 0, n - 1) of
\* their ascending-sorted latencies, a latency of the list itself; for the
\* eight latencies of 1..8 ticks it is the seventh, whatever failed samples
\* the list holds beside them.
C14_P95NearestRank ==
  \A t \in Threads :
    Returned(t, "p95_latency_ms") =>
      LET r == Result(t)
          lat == SuccessfulLatencies(samples)
          n == Cardinality(DOMAIN lat)
      IN /\ n = 0 <=> r = <<>>
         /\ n >= 1 => AtSortedIndex(lat, ClampedIndex(n), r[1])
         /\ {lat[i] : i \in DOMAIN lat}
              = {(k * 1000) \div TicksPerSecond : k \in 1..8} /\ n = 8
              => r = <<(7 * 1000) \div TicksPerSecond>>

C14_Witness ==
  /\ Returned(1, "p95_latency_ms")
  /\ Len(samples) = 10
  /\ Cardinality(FailedIn(samples)) = 2
  /\ samples[2].end_time - samples[2].start_time = 8
  /\ Result(1) = <<(7 * 1000) \div TicksPerSecond>>

\* the largest of the successful latencies of a list that has one
MaxSuccessfulLatency(list) ==
  LET lat == SuccessfulLatencies(list)
  IN CHOOSE m \in {lat[i] : i \in DOMAIN lat} : \A i \in DOMAIN lat : lat[i] <= m

\* C15: in every state of the list with a successful sample, p95_latency_ms
\* is the latency of a successful sample, min_latency_ms <= p95_latency_ms
\* <= the largest successful latency, and min_latency_ms <= avg_latency_ms
\* <= the largest successful latency.
C15_LatencyOrdering ==
  LET lat == SuccessfulLatencies(samples)
      lo == MinLatency(samples)
      avg == AvgLatency(samples)
      p95 == P95Latency(samples)
  IN DOMAIN lat # {} =>
       LET hi == MaxSuccessfulLatency(samples)
       IN /\ lo # <<>> /\ avg # <<>> /\ p95 # <<>>
          /\ \E i \in DOMAIN lat : lat[i] = p95[1]
          /\ lo[1] <= p95[1] /\ p95[1] <= hi
          /\ avg[2] > 0
          /\ lo[1] * avg[2] <= avg[1] /\ avg[1] <= hi * avg[2]

\* a list of failed and successful samples of different latencies, recorded
\* out of order, whose three statistics have been read and differ
C15_Witness ==
  /\ Returned(1, "avg_latency_ms")
  /\ FailedIn(samples) # {}
  /\ Cardinality(DOMAIN SuccessfulLatencies(samples)) = MaxN
  /\ samples[2].end_time - samples[2].start_time = MaxN
  /\ MinLatency(samples)[1] < P95Latency(samples)[1]
  /\ P95Latency(samples)[1] < MaxSuccessfulLatency(samples)
  /\ MinLatency(samples)[1] * Result(1)[2] < Result(1)[1]

\* the three latency statistics of a list
LatencyStats(list) == <<MinLatency(list), AvgLatency(list), P95Latency(list)>>

\* the successful samples of a list, in their order
OnlySuccessful(list) == SelectSeq(list, LAMBDA s : s.success = "True")

\* the step appends a failed Sample to the list
FailedSampleRecorded ==
  /\ Len(samples') = Len(samples) + 1
  /\ SubSeq(samples', 1, Len(samples)) = samples
  /\ samples'[Len(samples')].success # "True"

\* C16: recording a failed Sample, whatever its times, leaves min, avg and
\* p95 latency as they were; each of the three is what the successful
\* samples alone give, and is None exactly when the list holds no successful
\* sample (an empty list, a list of failures only).
C16_FailedSamplesDoNotCount ==
  /\ [][FailedSampleRecorded => LatencyStats(samples') = LatencyStats(samples)]_vars
  /\ [](LatencyStats(samples) = LatencyStats(OnlySuccessful(samples)))
  /\ [](\A k \in 1..3 :
          LatencyStats(samples)[k] = <<>> <=> OnlySuccessful(samples) = <<>>)
  /\ [](\A t \in Threads :
          \A k \in 1..3 :
            Returned(t, <<"min_latency_ms", "avg_latency_ms", "p95_latency_ms">>[k])
              => Result(t) = LatencyStats(OnlySuccessful(samples))[k])

\* a failed Sample of long latency was recorded into a list with successful
\* samples, and a statistic has been read after it
C16_Witness ==
  /\ Returned(1, "min_latency_ms")
  /\ Result(1) # <<>>
  /\ Len(samples) = Len(hist.initial) + 1
  /\ samples[Len(samples)].success # "True"
  /\ samples[Len(samples)].end_time - samples[Len(samples)].start_time > MaxN

\* count / max(d, epsilon) for a duration of d ticks: a duration of a tick
\* or more is above epsilon, one of 0 or less is floored to it
FlooredQuotient(count, d) ==
  IF d >= 1 THEN <<count, d>> ELSE <<count * EpsilonInverse, 1>>

LargestEnd(list) ==
  CHOOSE e \in {list[i].end_time : i \in 1..Len(list)} :
    \A i \in 1..Len(list) : list[i].end_time <= e

SmallestStart(list) ==
  CHOOSE b \in {list[i].start_time : i \in 1..Len(list)} :
    \A i \in 1..Len(list) : b <= list[i].start_time

\* the samples whose start_time lies in [E - w, E]
StartedInWindow(list, w) ==
  {i \in 1..Len(list) : /\ LargestEnd(list) - w <= list[i].start_time
                        /\ list[i].start_time <= LargestEnd(list)}

\* C17: throughput_per_second is 0.0 for an empty list; without a window it
\* is the number of samples over max(largest end_time - smallest start_time,
\* epsilon); with a window w it is the number of samples started in
\* [E - w, E], E the largest end_time, over max(w, epsilon); the divisor is
\* never zero, also when every sample has start_time = end_time or w <= 0.
C17_Throughput ==
  \A t \in Threads :
    Returned(t, "throughput_per_second") =>
      LET r == Result(t)
          window == th[t].arg
      IN /\ r[2] > 0
         /\ samples = <<>> => r = <<0, 1>>
         /\ (samples # <<>> /\ window = <<>>) =>
              RatEq(r, FlooredQuotient(Len(samples),
                         LargestEnd(samples) - SmallestStart(samples)))
         /\ (samples # <<>> /\ window # <<>>) =>
              RatEq(r, FlooredQuotient(
                         Cardinality(StartedInWindow(samples, window[1])),
                         window[1]))

\* a window that holds some of the samples and not all of them
C17_Witness ==
  /\ Returned(1, "throughput_per_second")
  /\ th[1].arg = <<2>>
  /\ Len(samples) >= 10
  /\ Cardinality(StartedInWindow(samples, 2)) \in 1..(Len(samples) - 1)
  /\ Result(1)[1] > 0

\* thread t has returned from a snapshot() that follows another one with no
\* record() in between
SecondSnapshot(t) ==
  /\ Returned(t, "snapshot")
  /\ hist.last # <<>>
  /\ hist.last[1].len = Len(samples)

\* the keys of the dict that are computed from the list
ListKeys ==
  {"total", "successes", "failures", "error_rate", "min_latency_ms",
   "avg_latency_ms", "p95_latency_ms", "throughput_per_second"}

\* C18 as stated: every key of the second dict, timestamp included, equals
\* the same key of the first.
C18_Original ==
  \A t \in Threads :
    SecondSnapshot(t) =>
      \A key \in ListKeys \cup {"timestamp"} :
        Result(t)[key] = hist.last[1].dict[key]

\* C18 amended: every key of the second dict that is computed from the list
\* equals the same key of the first; timestamp is the time of each call; and
\* no step of snapshot() changes the list.
C18_SnapshotIdempotent ==
  /\ [](\A t \in Threads :
          SecondSnapshot(t) =>
            \A key \in ListKeys : Result(t)[key] = hist.last[1].dict[key])
  /\ [][\A t \in Threads :
          (th[t].op = "snapshot" /\ th'[t] # th[t]) => samples' = samples]_vars

C18_Witness ==
  /\ SecondSnapshot(1)
  /\ Result(1).successes >= 1
  /\ Result(1).failures >= 1
  /\ Result(1).timestamp > hist.last[1].dict.timestamp

\* the value the claim gives an integer setting: the default when the
\* variable is not set or its text is no integer, else the integer
ClaimedInt(name) ==
  IF environ[name] = <<>> \/ IntOf(environ[name][1]) = <<>>
  THEN IntDefault[name] ELSE IntOf(environ[name][1])[1]

\* the value the claim gives the load multiplier: 3.0 when the variable is
\* not set or its text is no number, else the number
ClaimedMultiplier ==
  IF environ["LOAD_MULTIPLIER"] = <<>> \/ FloatOf(environ["LOAD_MULTIPLIER"][1]) = <<>>
  THEN <<3, 1>> ELSE FloatOf(environ["LOAD_MULTIPLIER"][1])[1]

\* C19: from_env of both classes returns a filled struct and raises nothing,
\* whatever the environment; each numeric setting is its default (11112, 50,
\* 3.0, 300, 8) when absent or malformed and the given value otherwise.
C19_FromEnvNeverFails ==
  /\ config.endpoint.built =>
       /\ ~config.endpoint.raised
       /\ config.endpoint.port = ClaimedInt("COMPASS_PORT")
       /\ config.endpoint.local_ae_title # ""
  /\ config.load_profile.built =>
       /\ ~config.load_profile.raised
       /\ config.load_profile.peak_images_per_second
            = ClaimedInt("PEAK_IMAGES_PER_SECOND")
       /\ config.load_profile.load_multiplier = ClaimedMultiplier
       /\ config.load_profile.test_duration_seconds
            = ClaimedInt("TEST_DURATION_SECONDS")
       /\ config.load_profile.concurrency = ClaimedInt("LOAD_CONCURRENCY")

\* the period, in ticks, the claim gives for a rate argument: the inverse of
\* the rate, the rate of None being peak_images_per_second * load_multiplier,
\* and 0 for a rate that is not positive
ClaimedPeriod(rate) ==
  LET R == IF rate = <<>>
           THEN load_profile.peak_images_per_second * load_profile.load_multiplier
           ELSE rate[1]
  IN IF R > 0 THEN TicksPerSecond \div R ELSE 0

\* the rate argument decides the period as the claim says, and a period of
\* 0 never sleeps
RateDecidesPeriod ==
  /\ [][\A conc \in Optional(0..MaxConcurrency), rate \in Optional(Rates),
           duration_seconds \in 0..MaxDuration, n \in 0..MaxDatasets :
          BeginWith(conc, rate, duration_seconds, n) => period' = ClaimedPeriod(rate)]_vars
  /\ [](pc = "sleep" => period > 0)

PingEnded == ping.at \in {"returned", "raised"} /\ ping.ae # 0

\* C21: a call of ping that returns gives true exactly when the association
\* was established and C-ECHO returned a status carrying 0x0000, and false
\* when the association was not established or the status is absent, empty
\* or another code; when the call has ended, by a return or an exception,
\* the AE it built has been shut down, once; no step of ping changes the
\* sample list of the collector.
C21_Ping ==
  /\ [](ping.at = "returned" =>
          /\ ping.result \in {"True", "False"}
          /\ ping.result = "True" <=>
               (ping.established /\ ping.echoed /\ ping.status = StatusSuccess)
          /\ ~ping.established => ping.result = "False"
          /\ (ping.echoed /\ ping.status # StatusSuccess) => ping.result = "False")
  /\ [](PingEnded =>
          /\ ~aes[ping.ae].open
          /\ aes[ping.ae].shutdowns = 1)
  /\ [](ping.at \in {"built", "associated", "echoed", "finally"} =>
          /\ aes[ping.ae].open
          /\ aes[ping.ae].shutdowns = 0)
  /\ [][samples' = samples]_vars
  /\ [](samples = hist.initial)

\* a second call of ping returned true, on a collector holding a sample;
\* the AE of the first call has been shut down
C21_Witness ==
  /\ ping.at = "returned"
  /\ ping.result = "True"
  /\ ping.calls = 2
  /\ Len(aes) = 2
  /\ ~aes[1].open
  /\ Len(samples) = 1

\* the calls submitted to the pool and not yet at their end
Uncompleted == {i \in Calls : ~Finished(i)}

\* C22: at every moment of a run the number of operations submitted but not
\* yet completed is at most concurrency (a submission beyond that would have
\* waited for a worker).
C22_UncompletedBounded ==
  pc \in {"loop", "pace", "sleep", "submit", "drain", "shutdown", "unwind"} =>
    Cardinality(Uncompleted) <= concurrency

\* a step of the main thread of load_test_for_duration
MainStep == pc' # pc \/ total_sent' # total_sent \/ next_send_time' # next_send_time

\* C23: at every moment at most concurrency send operations are executing
\* (started and their AE not yet shut down), and a step of the main thread
\* executes no part of a send: it leaves every submitted call, every AE and
\* the sample list as they are.
C23_ExecutingBounded ==
  /\ [](NumExecuting <= concurrency)
  /\ [][MainStep =>
          /\ aes' = aes
          /\ samples' = samples
          /\ \A i \in Calls : futures'[i] = futures[i]]_vars

\* the pool is saturated: its one worker executes a send while another
\* submitted call waits in the queue
C23_Witness ==
  /\ concurrency = 1
  /\ NumExecuting = 1
  /\ \E i \in Calls : futures[i].at = "queued"

\* C24: with period > 0 the scheduled submission times form a fixed grid:
\* after the k-th submission the next eligible time is start + k * period
\* (the call having started at 0), however late a submission was made.
C24_FixedGrid ==
  (period > 0 /\ pc \in {"loop", "pace", "sleep", "submit", "drain",
                         "shutdown", "returned"}) =>
    next_send_time = total_sent * period

\* C25: the i-th submission of a run, counting from 0, carries element
\* i mod n of a dataset sequence of n >= 1 items, and the i-th value of a
\* generator; no value is drawn without being submitted, so a generator's
\* value is drawn once.
C25_DatasetOrder ==
  /\ \A i \in Calls :
       futures[i].ds = IF datasets = Generator THEN i - 1
                       ELSE (i - 1) % datasets
  /\ ds_cycle = Len(futures)
  /\ total_sent = Len(futures)

\* a sequence of 2 items has wrapped around: the third submission carries
\* the first item again
C25_Witness ==
  /\ pc = "returned"
  /\ datasets = 2
  /\ Len(futures) = 3
  /\ futures[3].ds = 0
  /\ futures[2].ds = 1

\* C26: for non-negative n and t, get_image_index(n, t) never ends in a
\* RecursionError (it does not recurse without bound), and where t mod n is
\* defined (n > 0) what it returns is t mod n; it returns nothing where the
\* modulo is not defined.
C26_EqualsModulo ==
  /\ index_call.at # "raised"
  /\ index_call.at = "returned" =>
       /\ index_call.n > 0
       /\ index_call.result = index_call.t0 % index_call.n
       /\ index_call.result \in 0..(index_call.n - 1)

\* C27 as stated: at most one submission of a run is issued at or after
\* stop_at, and every submission is issued earlier than stop_at + period
\* (the last submission was issued at next_send_time - period).
C27_Original ==
  /\ late_submits <= 1
  /\ total_sent >= 1 => next_send_time - period < stop_at + period

\* C27 amended: the deadline is tested once per iteration, before the pacing
\* sleep and the submit, so at most one submission of a run is issued at or
\* after stop_at, and none before the iteration that is under way; the time
\* the submission of that iteration is scheduled for is earlier than
\* stop_at + period, the submission itself follows whenever the thread runs
\* again.
C27_ScheduledBeforeStopPlusPeriod ==
  /\ late_submits <= 1
  /\ pc \in {"pace", "sleep", "submit"} =>
       /\ late_submits = 0
       /\ next_send_time < stop_at + period

\* a paced run whose last submission was issued a whole period after stop_at
C27_Witness ==
  /\ pc = "returned"
  /\ period > 0
  /\ late_submits = 1
  /\ next_send_time - period >= stop_at + period

\* C28: an error_rate read that ran while other threads called record()
\* has divided by a total that is not 0, and returned a value in [0, 1]: the
\* failures it counted are no more than the total it divided by.
C28_ErrorRateInUnitInterval ==
  \A t \in Threads :
    (th[t].op = "error_rate" /\ th[t].at = "returned") =>
      /\ Result(t)[2] > 0
      /\ 0 <= Result(t)[1]
      /\ Result(t)[1] <= Result(t)[2]
      /\ th[t].vals[1] # 0 => /\ th[t].vals[3] # 0
                              /\ th[t].vals[2] <= th[t].vals[3]

\* an error_rate read whose three copies of the list all differ in length,
\* two record() calls having returned in between
C28_Witness ==
  \E t \in Threads :
    /\ th[t].op = "error_rate"
    /\ th[t].at = "returned"
    /\ th[t].vals[1] = 1
    /\ th[t].vals[2] = 2
    /\ th[t].vals[3] = 3

\* how many successful samples of the list have a latency of at most v
NotSlowerThan(list, v) ==
  LET lat == SuccessfulLatencies(list)
  IN Cardinality({i \in DOMAIN lat : lat[i] <= v})

NumSuccessful(list) == Cardinality(DOMAIN SuccessfulLatencies(list))

\* C29 as stated: with n >= 1 successful samples, at least 95% of them, that
\* is at least ceil(0.95 * n), have a latency <= p95_latency_ms.
C29_Original ==
  \A t \in Threads :
    (Returned(t, "p95_latency_ms") /\ NumSuccessful(samples) >= 1) =>
      100 * NotSlowerThan(samples, Result(t)[1]) >= 95 * NumSuccessful(samples)

\* C29 amended: with n >= 1 successful samples, at least max(1, floor(0.95 * n))
\* of them have a latency <= p95_latency_ms; that is at least 95% of them
\* when n = 1 or 0.95 * n is a whole number.
C29_P95LowerRank ==
  \A t \in Threads :
    (Returned(t, "p95_latency_ms") /\ NumSuccessful(samples) >= 1) =>
      LET n == NumSuccessful(samples)
          c == NotSlowerThan(samples, Result(t)[1])
      IN /\ c >= 1
         /\ c >= (95 * n) \div 100
         /\ (n = 1 \/ (95 * n) % 100 = 0) => 100 * c >= 95 * n

\* 21 successful samples of different latencies: 19 of them, fewer than 95%,
\* are not slower than the p95 that was read
C29_Witness ==
  /\ Returned(1, "p95_latency_ms")
  /\ NumSuccessful(samples) = 21
  /\ NotSlowerThan(samples, Result(1)[1]) = 19

\* the call was made with a pool of at least one worker
PoolCreated == pc # "idle" /\ concurrency > 0

\* nothing was submitted and nothing recorded
NothingSent == total_sent = 0 /\ futures = <<>> /\ samples = <<>> /\ aes = <<>>

====
